---- MODULE Spec2Model ----
(***************************************************************************)
(* A model of the recursive-descent JSON parser of src/src/main.rs:        *)
(* the Parser struct (src, pos), its cursor primitives, its productions    *)
(* and the Display rendering of JsonValue.                                 *)
(*                                                                         *)
(* A text is a sequence of characters (one-character strings).  The one    *)
(* non-ASCII character of the model is written "U+00E9"; its UTF-8         *)
(* encoding is two bytes long.  The parser's pos is a character ordinal    *)
(* for peek/advance (chars().nth) and a byte offset for the string slices  *)
(* of consume_word and parse_number, exactly as in the source.             *)
(***************************************************************************)
EXTENDS Integers, Sequences, FiniteSets, TLC

VARIABLES src, pos, pos0, op, ret, held, out, doc

vars == <<src, pos, pos0, op, ret, held, out, doc>>

(***************************************************************************)
(* Characters and UTF-8 bytes                                              *)
(***************************************************************************)
EAcute == "U+00E9"

Digits == {"0", "1", "2", "3", "4", "5", "6", "7", "8", "9"}

DigitVal(ch) ==
    CASE ch = "0" -> 0 [] ch = "1" -> 1 [] ch = "2" -> 2 [] ch = "3" -> 3
      [] ch = "4" -> 4 [] ch = "5" -> 5 [] ch = "6" -> 6 [] ch = "7" -> 7
      [] ch = "8" -> 8 [] ch = "9" -> 9

DigitChar(d) == <<"0", "1", "2", "3", "4", "5", "6", "7", "8", "9">>[d + 1]

\* The UTF-8 encoding of one character: String stores bytes.
Utf8(ch) == IF ch = EAcute THEN <<"0xC3", "0xA9">> ELSE <<ch>>

RECURSIVE Bytes(_)
Bytes(s) == IF s = <<>> THEN <<>> ELSE Utf8(Head(s)) \o Bytes(Tail(s))

\* String::len(): the length in bytes.
ByteLen(s) == Len(Bytes(s))

\* str::is_char_boundary: index 0, the length, or the first byte of a character.
IsCharBoundary(s, i) ==
    \/ i = 0
    \/ i = ByteLen(s)
    \/ i < ByteLen(s) /\ Bytes(s)[i + 1] # "0xA9"

(***************************************************************************)
(* Outcomes of an operation.  Panic is the process abort of panic!, of     *)
(* unwrap on an Err and of a string slice off a character boundary.        *)
(***************************************************************************)
NoChar == "EOF"

Some(v, p) == [kind |-> "Some", val |-> v, pos |-> p]
None(p) == [kind |-> "None", pos |-> p]
Panic(p) == [kind |-> "Panic", pos |-> p]
Flag(b, p) == [kind |-> "Bool", val |-> b, pos |-> p]
Unit(p) == [kind |-> "Unit", pos |-> p]

\* &src[a..b] with a <= b <= len: the bytes, or a panic off a char boundary.
Slice(s, a, b) ==
    IF IsCharBoundary(s, a) /\ IsCharBoundary(s, b)
    THEN [kind |-> "Some", val |-> SubSeq(Bytes(s), a + 1, b)]
    ELSE [kind |-> "Panic"]

(***************************************************************************)
(* JsonValue                                                               *)
(***************************************************************************)
Null == [type |-> "Null"]
Number(n) == [type |-> "Number", n |-> n]
String(s) == [type |-> "String", s |-> s]
Bool(b) == [type |-> "Bool", b |-> b]
Array(items) == [type |-> "Array", items |-> items]
Obj(map) == [type |-> "Obj", map |-> map]

EmptyMap == [k \in {} |-> Null]

\* HashMap::insert: the new value replaces an existing entry of the key.
Insert(map, key, value) ==
    [k \in DOMAIN map \cup {key} |-> IF k = key THEN value ELSE map[k]]

(***************************************************************************)
(* Cursor                                                                  *)
(***************************************************************************)
\* self.src.chars().nth(self.pos)
peek(s, p) == IF p < Len(s) THEN s[p + 1] ELSE NoChar

\* self.pos += 1; self.src.chars().nth(self.pos - 1)
advance(s, p) ==
    IF p < Len(s) THEN Some(s[p + 1], p + 1) ELSE None(p + 1)

IsWhitespace(ch) == ch \in {"\t", "\n", " ", "\r"}

RECURSIVE skip_whitespace(_, _)
skip_whitespace(s, p) ==
    IF peek(s, p) # NoChar /\ IsWhitespace(peek(s, p))
    THEN skip_whitespace(s, advance(s, p).pos)
    ELSE p

consume(s, p, toMatch) ==
    IF peek(s, p) = toMatch THEN Flag(TRUE, advance(s, p).pos) ELSE Flag(FALSE, p)

expect(s, p, toMatch) ==
    IF peek(s, p) # toMatch THEN Panic(p) ELSE Unit(advance(s, p).pos)

\* pos + l <= src.len() && &src[pos..pos + l] == word, in bytes.
consume_word(s, p, word) ==
    LET l == Len(word) IN
    IF p + l <= ByteLen(s)
    THEN LET sl == Slice(s, p, p + l) IN
         IF sl.kind = "Panic" THEN Panic(p)
         ELSE IF sl.val = word THEN Flag(TRUE, p + l) ELSE Flag(FALSE, p)
    ELSE Flag(FALSE, p)

WordNull == <<"n", "u", "l", "l">>
WordTrue == <<"t", "r", "u", "e">>
WordFalse == <<"f", "a", "l", "s", "e">>

(***************************************************************************)
(* str::parse::<f64> on the bytes of a slice.  Over the characters of the  *)
(* model's texts the accepted lexemes are an optional sign followed by a   *)
(* non-empty digit run (no text of the model holds '.', a digit followed   *)
(* by 'e', "inf" or "nan"); leading zeros are accepted.  Values are the    *)
(* integers the f64 holds.                                                 *)
(***************************************************************************)
RECURSIVE DecValue(_, _)
DecValue(bs, acc) ==
    IF bs = <<>> THEN acc ELSE DecValue(Tail(bs), acc * 10 + DigitVal(Head(bs)))

AllDigits(bs) == bs # <<>> /\ \A i \in 1..Len(bs) : bs[i] \in Digits

ParseF64(bs) ==
    IF AllDigits(bs) THEN [ok |-> TRUE, val |-> DecValue(bs, 0)]
    ELSE IF bs # <<>> /\ Head(bs) = "-" /\ AllDigits(Tail(bs))
         THEN [ok |-> TRUE, val |-> 0 - DecValue(Tail(bs), 0)]
    ELSE IF bs # <<>> /\ Head(bs) = "+" /\ AllDigits(Tail(bs))
         THEN [ok |-> TRUE, val |-> DecValue(Tail(bs), 0)]
    ELSE [ok |-> FALSE]

(***************************************************************************)
(* Productions                                                             *)
(***************************************************************************)
RECURSIVE StringLoop(_, _, _)
StringLoop(s, p, result) ==
    LET ch == peek(s, p) IN
    IF ch = NoChar THEN None(p)
    ELSE IF ch = "\"" THEN Some(String(result), advance(s, p).pos)
    ELSE StringLoop(s, advance(s, p).pos, Append(result, ch))

parse_string(s, p) ==
    LET c == consume(s, p, "\"") IN
    IF ~c.val THEN None(p) ELSE StringLoop(s, c.pos, <<>>)

parse_null(s, p) ==
    LET c == consume_word(s, p, WordNull) IN
    IF c.kind = "Panic" THEN Panic(p)
    ELSE IF c.val THEN Some(Null, c.pos) ELSE None(p)

parse_bool(s, p) ==
    LET c == consume_word(s, p, WordTrue) IN
    IF c.kind = "Panic" THEN Panic(p)
    ELSE IF c.val THEN Some(Bool(TRUE), c.pos)
    ELSE LET d == consume_word(s, p, WordFalse) IN
         IF d.kind = "Panic" THEN Panic(p)
         ELSE IF d.val THEN Some(Bool(FALSE), d.pos) ELSE None(p)

\* The loop of parse_number: advance over the digits peek sees.
RECURSIVE DigitLoop(_, _)
DigitLoop(s, p) ==
    IF peek(s, p) \in Digits THEN DigitLoop(s, advance(s, p).pos) ELSE p

\* A parse_number that applies the JSON grammar to the integer part.
ParseNumberNoLeadingZero(s, p) ==
    LET idx == p
        q == DigitLoop(s, p)
    IN  IF idx = q THEN None(q)
        ELSE IF peek(s, idx) = "0" /\ q > idx + 1 THEN None(q)
        ELSE LET sl == Slice(s, idx, q) IN
             IF sl.kind = "Panic" THEN Panic(q)
             ELSE LET f == ParseF64(sl.val) IN
                  IF f.ok THEN Some(Number(f.val), q) ELSE Panic(q)

parse_number(s, p) ==
    LET idx == p
        q == DigitLoop(s, p)
    IN  IF idx = q THEN None(q)
        ELSE LET sl == Slice(s, idx, q) IN
             IF sl.kind = "Panic" THEN Panic(q)
             ELSE LET f == ParseF64(sl.val) IN
                  IF f.ok THEN Some(Number(f.val), q) ELSE Panic(q)

RECURSIVE parse(_, _)
RECURSIVE ArrayLoop(_, _, _)
RECURSIVE ObjectLoop(_, _, _)

\* self.expect(']'); Some(JsonValue::Array(result))
ArrayEnd(s, p, result) ==
    LET e == expect(s, p, "]") IN
    IF e.kind = "Panic" THEN Panic(p) ELSE Some(Array(result), e.pos)

\* A loop of parse_array that fails when no value follows a comma.
ArrayLoopStrict(s, p, result) ==
    LET r == parse(s, p) IN
    IF r.kind = "Panic" THEN Panic(r.pos)
    ELSE IF r.kind = "None"
         THEN IF result # <<>> THEN None(r.pos) ELSE ArrayEnd(s, r.pos, result)
    ELSE LET q == skip_whitespace(s, r.pos)
             c == consume(s, q, ",")
         IN  IF c.val THEN ArrayLoop(s, c.pos, Append(result, r.val))
             ELSE ArrayEnd(s, q, Append(result, r.val))

ArrayLoop(s, p, result) ==
    LET r == parse(s, p) IN
    IF r.kind = "Panic" THEN Panic(r.pos)
    ELSE IF r.kind = "None" THEN ArrayEnd(s, r.pos, result)
    ELSE LET q == skip_whitespace(s, r.pos)
             c == consume(s, q, ",")
         IN  IF c.val THEN ArrayLoop(s, c.pos, Append(result, r.val))
             ELSE ArrayEnd(s, q, Append(result, r.val))

parse_array(s, p) ==
    LET c == consume(s, p, "[") IN
    IF c.val THEN ArrayLoop(s, c.pos, <<>>) ELSE None(p)

\* self.expect('}'); Some(JsonValue::Obj(map))
ObjectEnd(s, p, map) ==
    LET e == expect(s, p, "}") IN
    IF e.kind = "Panic" THEN Panic(p) ELSE Some(Obj(map), e.pos)

\* The member after the key: ':' , the value, the insertion, the ',' test.
ObjectMember(s, p, map, key) ==
    LET q == skip_whitespace(s, p)
        e == expect(s, q, ":")
    IN  IF e.kind = "Panic" THEN Panic(q)
        ELSE LET v == parse(s, e.pos) IN
             IF v.kind # "Some" THEN Panic(v.pos)
             ELSE LET m == Insert(map, key, v.val)
                      w == skip_whitespace(s, v.pos)
                      c == consume(s, w, ",")
                  IN  IF c.val THEN ObjectLoop(s, c.pos, m)
                      ELSE ObjectEnd(s, w, m)

ObjectLoop(s, p, map) ==
    LET k == parse(s, p) IN
    IF k.kind = "Panic" THEN Panic(k.pos)
    ELSE IF k.kind = "None" THEN ObjectEnd(s, k.pos, map)
    ELSE IF k.val.type # "String" THEN Panic(k.pos)
    ELSE ObjectMember(s, k.pos, map, k.val.s)

parse_object(s, p) ==
    LET c == consume(s, p, "{") IN
    IF c.val THEN ObjectLoop(s, c.pos, EmptyMap) ELSE None(p)

parse(s, p) ==
    LET q == skip_whitespace(s, p)
        ch == peek(s, q)
    IN  IF ch = NoChar THEN None(q)
        ELSE IF ch = "\"" THEN parse_string(s, q)
        ELSE IF ch \in Digits THEN parse_number(s, q)
        ELSE IF ch \in {"t", "f"} THEN parse_bool(s, q)
        ELSE IF ch = "[" THEN parse_array(s, q)
        ELSE IF ch = "n" THEN parse_null(s, q)
        ELSE IF ch = "{" THEN parse_object(s, q)
        ELSE None(q)

(***************************************************************************)
(* impl fmt::Display for JsonValue.  A HashMap iterates in an arbitrary    *)
(* order, so an Obj has one rendering for each order of its keys.          *)
(***************************************************************************)
RECURSIVE DecDigits(_)
DecDigits(n) ==
    IF n < 10 THEN <<DigitChar(n)>> ELSE Append(DecDigits(n \div 10), DigitChar(n % 10))

\* write!(f, "{}", n) for an integer-valued f64.
DisplayNumber(n) == IF n < 0 THEN <<"-">> \o DecDigits(0 - n) ELSE DecDigits(n)

\* All orders of a finite set, as sequences.
RECURSIVE Orders(_)
Orders(S) ==
    IF S = {} THEN {<<>>}
    ELSE UNION {{<<x>> \o o : o \in Orders(S \ {x})} : x \in S}

RECURSIVE Display(_)
RECURSIVE DisplayItems(_, _)
RECURSIVE DisplayMembers(_, _, _)

\* The items of an array from the i-th on, with "," before all but the first.
DisplayItems(arr, i) ==
    IF i > Len(arr) THEN {<<>>}
    ELSE {(IF i > 1 THEN <<",">> ELSE <<>>) \o a \o b :
            a \in Display(arr[i]), b \in DisplayItems(arr, i + 1)}

\* The members of a map in the order keys, from the i-th on.
DisplayMembers(map, keys, i) ==
    IF i > Len(keys) THEN {<<>>}
    ELSE {(IF i > 1 THEN <<",">> ELSE <<>>) \o <<"\"">> \o keys[i] \o <<"\"", ":">> \o a \o b :
            a \in Display(map[keys[i]]), b \in DisplayMembers(map, keys, i + 1)}

Display(v) ==
    CASE v.type = "Null" -> {WordNull}
      [] v.type = "Bool" -> {IF v.b THEN WordTrue ELSE WordFalse}
      [] v.type = "Number" -> {DisplayNumber(v.n)}
      [] v.type = "String" -> {<<"\"">> \o v.s \o <<"\"">>}
      [] v.type = "Array" -> {<<"[">> \o a \o <<"]">> : a \in DisplayItems(v.items, 1)}
      [] v.type = "Obj" ->
           UNION {{<<"{">> \o a \o <<"}">> : a \in DisplayMembers(v.map, o, 1)} :
                    o \in Orders(DOMAIN v.map)}

(***************************************************************************)
(* Input texts.  A Doc is a JSON text given by its syntax: a literal with  *)
(* its lexeme and value, an array of Docs or an object of members, with    *)
(* or without a trailing comma and whitespace.  DocText is the text a Doc  *)
(* stands for and DocValue the value the grammar gives it (the last        *)
(* occurrence of a repeated key winning).                                  *)
(***************************************************************************)
MaxLen == 3
MaxItems == 2
MaxMembers == 2
MaxOver == 1

Lit(text, v) == [k |-> "lit", text |-> text, val |-> v]
LitStr(s) == Lit(<<"\"">> \o s \o <<"\"">>, String(s))
LitNum(n) == Lit(DisplayNumber(n), Number(n))
Arr(items, trail, ws) == [k |-> "arr", items |-> items, trail |-> trail, ws |-> ws]
Object(members, trail, ws) == [k |-> "obj", members |-> members, trail |-> trail, ws |-> ws]
Member(key, d) == [key |-> key, val |-> d]

Sep(ws) == IF ws THEN <<",", " ">> ELSE <<",">>
Pad(ws) == IF ws THEN <<" ">> ELSE <<>>
Close(trail, ws, ch) == (IF trail THEN <<",">> ELSE <<>>) \o Pad(ws) \o <<ch>>

RECURSIVE DocText(_)
RECURSIVE ItemsText(_, _, _)
RECURSIVE MembersText(_, _, _)

ItemsText(items, i, ws) ==
    IF i > Len(items) THEN <<>>
    ELSE (IF i > 1 THEN Sep(ws) ELSE <<>>) \o DocText(items[i]) \o ItemsText(items, i + 1, ws)

MembersText(ms, i, ws) ==
    IF i > Len(ms) THEN <<>>
    ELSE (IF i > 1 THEN Sep(ws) ELSE <<>>) \o <<"\"">> \o ms[i].key \o <<"\"">> \o Pad(ws)
         \o <<":">> \o Pad(ws) \o DocText(ms[i].val) \o MembersText(ms, i + 1, ws)

DocText(d) ==
    CASE d.k = "lit" -> d.text
      [] d.k = "arr" -> <<"[">> \o ItemsText(d.items, 1, d.ws) \o Close(d.trail, d.ws, "]")
      [] d.k = "obj" -> <<"{">> \o MembersText(d.members, 1, d.ws) \o Close(d.trail, d.ws, "}")

RECURSIVE DocValue(_)
\* The index of the last member of ms with the key.
LastOf(ms, key) == CHOOSE i \in 1..Len(ms) :
    ms[i].key = key /\ \A j \in (i + 1)..Len(ms) : ms[j].key # key

DocValue(d) ==
    CASE d.k = "lit" -> d.val
      [] d.k = "arr" -> Array([i \in 1..Len(d.items) |-> DocValue(d.items[i])])
      [] d.k = "obj" ->
           Obj([key \in {d.members[i].key : i \in 1..Len(d.members)} |->
                   DocValue(d.members[LastOf(d.members, key)].val)])

SeqsUpTo(S, n) == UNION {[1..k -> S] : k \in 0..n}

RawAlphabet == {"[", "]", ",", "1", EAcute}

\* The inputs of the tests of main.rs and of the examples of the specification.
Examples ==
    { <<"n", "u", "l", "l">>,
      <<"n", "u", "l">>,
      <<"t", "r", "u", "e">>,
      <<"f", "a", "l", "s", "e">>,
      <<"f", "a", "l", "e">>,
      <<"t", "r", "u">>,
      <<"t", "r", "u", "e", "x">>,
      <<"n", "u", "l", "l", "x">>,
      <<"f", "a", "l", "s", "e", "1">>,
      <<"0", "1", "2", "3", "4">>,
      <<"0", "1", "2", "3", "4", " ", "a", "b", "c">>,
      <<"0", "0", "7">>,
      <<"-", "1">>,
      <<"-", "1", "2">>,
      <<" ", "\t", "\n", " ">>,
      <<" ", "\t", " ", "a">>,
      <<"\"", "T", "e", "s", "t", "i", "n", "g", "\"">>,
      <<"[", "1", ",", "3", "2", ",", "\"", "a", "b", "c", "\"", ",", " ", "n", "u", "l", "l", " ", " ", "]">>,
      <<"[", "1", ",", "2", ",", "]">>,
      <<"[", "1", " ", "2", "]">>,
      <<"[", "1">>,
      <<"[", "1", ",">>,
      <<"{", "\"", "k", "\"">>,
      <<"{", "\"", "k", "\"", ":">>,
      <<"{", "\"", "k", "\"", ":", "}">>,
      <<"{", "1", ":", "2", "}">>,
      <<"{", "\"", "k", "\"", " ", "1", "}">>,
      <<"{", "\"", "a", "\"", ":", "1", ",", "\"", "a", "\"", ":", "2", "}">>,
      <<"\"", "a", "\\", "\"", "b", "\"">>,
      <<"[", "\"", "U+00E9", "\"", ",", "n", "u", "l", "l", "]">>,
      <<"[", "\"", "U+00E9", "\"", ",", "1", "2", "]">>,
      <<"\"", "U+00E9", "\"", " ", "t", "r", "u", "e">>,
      <<"U+00E9", "U+00E9", "1", "2">>,
      <<"U+00E9", "n", "u", "l", "l">>,
      <<"[", "]">>,
      <<"{", "}">> }

RawTexts == SeqsUpTo(RawAlphabet, MaxLen) \cup Examples

LitNull == Lit(WordNull, Null)
LitTrue == Lit(WordTrue, Bool(TRUE))
LitFalse == Lit(WordFalse, Bool(FALSE))

ArrayLeaves == {LitNull, LitNum(12), LitStr(<<EAcute>>), LitNum(0 - 1)}
MemberKeys == {<<"k">>, <<EAcute>>}
MemberLeaves == {LitNull, LitNum(1)}

ArrayDocs == {Arr(items, trail, ws) :
                items \in SeqsUpTo(ArrayLeaves, MaxItems), trail \in BOOLEAN, ws \in BOOLEAN}

ObjectDocs == {Object(ms, trail, FALSE) :
                 ms \in SeqsUpTo({Member(key, d) : key \in MemberKeys, d \in MemberLeaves},
                                 MaxMembers),
                 trail \in BOOLEAN}

\* Nested texts, the texts of the tests and the texts with a repeated key.
PickedDocs ==
    { Arr(<<LitNum(1), LitNum(32), LitStr(<<"a", "b", "c">>), LitNull>>, FALSE, TRUE),
      Arr(<<Arr(<<LitNum(1)>>, FALSE, FALSE), Arr(<<>>, FALSE, FALSE)>>, FALSE, FALSE),
      Arr(<<Arr(<<LitTrue>>, TRUE, FALSE), Object(<<Member(<<"k">>, LitFalse)>>, FALSE, FALSE)>>,
          TRUE, FALSE),
      Arr(<<LitTrue, LitFalse>>, TRUE, TRUE),
      Object(<<Member(<<"o">>, LitNum(2)),
               Member(<<"t">>, Arr(<<LitNum(2), LitNull, LitFalse>>, FALSE, TRUE)),
               Member(<<"h">>, LitStr(<<"v">>))>>, TRUE, TRUE),
      Object(<<Member(<<"a">>, LitNum(1)), Member(<<"a">>, LitNum(2))>>, FALSE, FALSE),
      Object(<<Member(<<"a">>, LitNum(1)), Member(<<"b">>, LitTrue), Member(<<"a">>, LitNull)>>,
             FALSE, TRUE),
      Object(<<Member(<<"2">>, LitStr(<<EAcute, EAcute, EAcute>>)), Member(<<"2">>, LitNum(1))>>,
             FALSE, FALSE),
      Object(<<Member(<<"k">>, Object(<<Member(<<"k">>, LitNull)>>, TRUE, FALSE))>>, FALSE, FALSE) }

Docs == ArrayDocs \cup ObjectDocs \cup PickedDocs

\* The values a program builds and renders.
StringValues == {String(<<>>), String(<<"k">>), String(<<"\"">>), String(<<"\\">>), String(<<EAcute>>)}
LeafValues == {Null, Bool(TRUE), Bool(FALSE), Number(0), Number(12), Number(0 - 1)} \cup StringValues
ValueKeys == {<<"k">>, <<EAcute>>}
MapsOver(K, V) == UNION {[D -> V] : D \in SUBSET K}
ItemValues == {Null, Number(12), Number(0 - 1), String(<<"\"">>), String(<<EAcute>>)}
Values ==
    LeafValues
      \cup {Array(items) : items \in SeqsUpTo(ItemValues, MaxItems)}
      \cup {Obj(m) : m \in MapsOver(ValueKeys, ItemValues)}
      \cup {Array(<<Array(<<Null>>), Obj(<<"k">> :> Number(1))>>),
            Obj(<<"k">> :> Array(<<Number(1), String(<<"k">>)>>))}

NoValue == [type |-> "NoValue"]
NoText == <<"NoText">>
NoDoc == [k |-> "none"]

(***************************************************************************)
(* The program: a Parser over src at pos.  op and ret are the operation    *)
(* called last and what it returned, pos0 the position it was called at.   *)
(* held is the JsonValue handed to Display and out the text Display wrote. *)
(* doc is the syntax the text was written from, when it was.  After a      *)
(* panic the process is gone and nothing more happens.                     *)
(***************************************************************************)
Call(name, arg) == [name |-> name, arg |-> arg]

Init ==
    /\ pos = 0
    /\ pos0 = 0
    /\ op = Call("new", <<>>)
    /\ ret = Unit(0)
    /\ out = NoText
    /\ \/ src \in RawTexts /\ doc = NoDoc /\ held = NoValue
       \/ doc \in Docs /\ src = DocText(doc) /\ held = NoValue
       \/ held \in Values /\ src = <<>> /\ doc = NoDoc

Alive == ret.kind # "Panic"

\* One call of a Parser method: r is its outcome.
Step(name, arg, r) ==
    /\ Alive
    /\ op' = Call(name, arg)
    /\ ret' = r
    /\ pos0' = pos
    /\ pos' = r.pos
    /\ UNCHANGED <<src, held, out, doc>>

ConsumeChars == {",", "1"}
ExpectChars == {"]", "}"}
Words == {WordNull, WordTrue, WordFalse}

DoPeek ==
    Step("peek", <<>>, IF peek(src, pos) = NoChar THEN None(pos) ELSE Some(peek(src, pos), pos))

DoAdvance == pos < Len(src) + MaxOver /\ Step("advance", <<>>, advance(src, pos))

DoSkipWhitespace == Step("skip_whitespace", <<>>, Unit(skip_whitespace(src, pos)))

DoConsume == \E c \in ConsumeChars : Step("consume", <<c>>, consume(src, pos, c))

DoExpect == \E c \in ExpectChars : Step("expect", <<c>>, expect(src, pos, c))

DoConsumeWord == \E w \in Words : Step("consume_word", w, consume_word(src, pos, w))

DoParseString == Step("parse_string", <<>>, parse_string(src, pos))

DoParseNull == Step("parse_null", <<>>, parse_null(src, pos))

DoParseBool == Step("parse_bool", <<>>, parse_bool(src, pos))

DoParseNumber == Step("parse_number", <<>>, parse_number(src, pos))

DoParseArray == Step("parse_array", <<>>, parse_array(src, pos))

DoParseObject == Step("parse_object", <<>>, parse_object(src, pos))

DoParse == Step("parse", <<>>, parse(src, pos))

\* println!("{}", v): of a value the program built, or of the result of
\* parse on a new Parser as in main.
DoDisplay ==
    /\ Alive
    /\ \E v \in {held} \cup (IF op.name = "parse" /\ pos0 = 0 /\ ret.kind = "Some"
                             THEN {ret.val} ELSE {}) :
         /\ v # NoValue
         /\ held' = v
         /\ out' \in Display(v)
    /\ UNCHANGED <<src, pos, pos0, op, ret, doc>>

\* Parser::new on the text Display wrote.
DoNew ==
    /\ Alive
    /\ out # NoText
    /\ src' = out
    /\ pos' = 0
    /\ pos0' = 0
    /\ op' = Call("new", <<>>)
    /\ ret' = Unit(0)
    /\ out' = NoText
    /\ doc' = NoDoc
    /\ UNCHANGED held

Next ==
    \/ DoPeek
    \/ DoAdvance
    \/ DoSkipWhitespace
    \/ DoConsume
    \/ DoExpect
    \/ DoConsumeWord
    \/ DoParseString
    \/ DoParseNull
    \/ DoParseBool
    \/ DoParseNumber
    \/ DoParseArray
    \/ DoParseObject
    \/ DoParse
    \/ DoDisplay
    \/ DoNew

Spec == Init /\ [][Next]_vars

TypeOK == pos \in Nat /\ pos0 \in Nat /\ pos0 <= pos

(***************************************************************************)
(* Vocabulary of the properties                                            *)
(***************************************************************************)
\* The characters of s from position p on begin with w, as peek/advance see them.
StartsWith(s, p, w) == \A i \in 1..Len(w) : p + i <= Len(s) /\ s[p + i] = w[i]

\* s holds a proper prefix of w at p and does not go on to spell w.
ProperPrefixAt(s, p, w) ==
    \E n \in 1..(Len(w) - 1) : StartsWith(s, p, SubSeq(w, 1, n)) /\ peek(s, p + n) # w[n + 1]

Letters == {"a", "b", "c", "d", "e", "f", "g", "h", "i", "j", "k", "l", "m", "n", "o", "p",
            "q", "r", "s", "t", "u", "v", "w", "x", "y", "z"}
IdentCont(ch) == ch \in Letters \cup Digits \cup {"_"}

Range(s) == {s[i] : i \in 1..Len(s)}

\* The maximal run of digit characters of s from position p on.
RECURSIVE DigitRun(_, _)
DigitRun(s, p) == IF peek(s, p) \in Digits THEN <<peek(s, p)>> \o DigitRun(s, p + 1) ELSE <<>>

\* The number a digit run denotes, most significant digit first.
RECURSIVE RunValue(_)
RunValue(run) ==
    IF run = <<>> THEN 0
    ELSE RunValue(SubSeq(run, 1, Len(run) - 1)) * 10 + DigitVal(run[Len(run)])

\* A Doc of the JSON grammar: no trailing comma at any depth.
RECURSIVE WellFormed(_)
WellFormed(d) ==
    CASE d.k = "lit" -> TRUE
      [] d.k = "arr" -> ~d.trail /\ \A i \in 1..Len(d.items) : WellFormed(d.items[i])
      [] d.k = "obj" -> ~d.trail /\ \A i \in 1..Len(d.members) : WellFormed(d.members[i].val)

HasRepeatedKey(d) ==
    d.k = "obj" /\ \E i, j \in 1..Len(d.members) : i < j /\ d.members[i].key = d.members[j].key

\* The position parse dispatches at: after the leading whitespace.
Lookahead == skip_whitespace(src, pos0)

(***************************************************************************)
(* C1. No operation of the parser aborts the process: every call of        *)
(* parse, parse_array, parse_object, parse_number or expect ends in a      *)
(* value or a failure returned to the caller, never in a panic.            *)
(***************************************************************************)
C1_NeverAborts ==
    op.name \in {"parse", "parse_array", "parse_object", "parse_number", "expect"}
        => ret.kind # "Panic"

(***************************************************************************)
(* C2. parse_array on a well-formed array text returns the Array of the    *)
(* values of its elements in source order with the cursor just past the    *)
(* closing ']' (the empty array for no element); on a lookahead that is    *)
(* not '[' it returns None and leaves the cursor unchanged.                *)
(***************************************************************************)
C2_ArrayOfElements ==
    op.name = "parse_array" =>
        /\ (pos0 = 0 /\ doc.k = "arr" /\ WellFormed(doc))
               => ret = Some(DocValue(doc), Len(src))
        /\ peek(src, pos0) # "[" => ret = None(pos0) /\ pos = pos0

(***************************************************************************)
(* C3. parse skips the leading whitespace and dispatches on the lookahead  *)
(* as the table states: '"' string, '-' or a digit number, 't'/'f'         *)
(* boolean, 'n' null, '[' array, '{' object, anything else or the end of   *)
(* input a failure; '-' followed by digits yields a Number.                *)
(***************************************************************************)
C3_Production(ch) ==
    CASE ch = "\"" -> {"String"}
      [] ch \in Digits \cup {"-"} -> {"Number"}
      [] ch \in {"t", "f"} -> {"Bool"}
      [] ch = "n" -> {"Null"}
      [] ch = "[" -> {"Array"}
      [] ch = "{" -> {"Obj"}
      [] OTHER -> {}

C3_DispatchTable ==
    op.name = "parse" =>
        LET ch == peek(src, Lookahead) IN
        /\ ret.kind = "Some" => ret.val.type \in C3_Production(ch)
        /\ C3_Production(ch) = {} => ret = None(Lookahead)
        /\ (ch = "-" /\ peek(src, Lookahead + 1) \in Digits)
               => ret.kind = "Some" /\ ret.val.type = "Number"

(***************************************************************************)
(* C4 as stated. A trailing comma is rejected: an array text whose last    *)
(* ',' is followed by ']' with no value in between, and an object text     *)
(* whose last member is followed by ',' and '}', never parse to a value.   *)
(***************************************************************************)
C4_TrailingCommaRejected ==
    (/\ pos0 = 0
     /\ \/ doc.k = "arr" /\ doc.trail /\ op.name \in {"parse", "parse_array"}
        \/ doc.k = "obj" /\ doc.trail /\ doc.members # <<>>
             /\ op.name \in {"parse", "parse_object"})
        => ret.kind # "Some"

\* The Doc without its trailing comma.
Untrailed(d) == [d EXCEPT !.trail = FALSE]

(***************************************************************************)
(* C4 as amended. A trailing comma is accepted: when an array text with    *)
(* one or more elements parses to an Array, the same text with a ','       *)
(* (and optional whitespace) before the closing ']' parses to that same    *)
(* Array with the cursor just past the ']'; likewise an object text with   *)
(* one or more members and its '}'.                                        *)
(***************************************************************************)
C4_TrailingCommaAccepted ==
    (/\ pos0 = 0
     /\ doc.k \in {"arr", "obj"}
     /\ doc.trail
     /\ IF doc.k = "arr" THEN doc.items # <<>> /\ op.name \in {"parse", "parse_array"}
        ELSE doc.members # <<>> /\ op.name \in {"parse", "parse_object"})
        => LET plain == DocText(Untrailed(doc))
               r == parse(plain, 0)
           IN  (r.kind = "Some" /\ r.pos = Len(plain)) => ret = Some(r.val, Len(src))

C4_Witness ==
    /\ op.name = "parse_array"
    /\ pos0 = 0
    /\ doc.k = "arr"
    /\ doc.trail
    /\ Len(doc.items) = 2
    /\ parse(DocText(Untrailed(doc)), 0).kind = "Some"
    /\ ret = Some(DocValue(doc), Len(src))

(***************************************************************************)
(* C5. Repeated keys are last-write-wins: the Obj returned for an object   *)
(* text with a repeated key maps every key of the text, and no other, to   *)
(* the value of its last occurrence in source order.                       *)
(***************************************************************************)
C5_LastWriteWins ==
    (/\ op.name \in {"parse", "parse_object"}
     /\ pos0 = 0
     /\ HasRepeatedKey(doc)
     /\ ret.kind = "Some")
        => ret.val = DocValue(doc)

\* The same over the texts whose characters are all one byte long.
C5_LastWriteWinsAscii ==
    (/\ op.name \in {"parse", "parse_object"}
     /\ pos0 = 0
     /\ HasRepeatedKey(doc)
     /\ EAcute \notin Range(src)
     /\ ret.kind = "Some")
        => ret.val = DocValue(doc)

(***************************************************************************)
(* C6 as stated. A text that starts with '0' followed by further digits    *)
(* is a failure of parse_number and of parse, not a Number.                *)
(***************************************************************************)
LeadingZeroInput ==
    /\ pos0 = 0
    /\ op.name \in {"parse", "parse_number"}
    /\ peek(src, 0) = "0"
    /\ peek(src, 1) \in Digits

C6_LeadingZeroRejected == LeadingZeroInput => ret.kind # "Some"

(***************************************************************************)
(* C6 as amended. A text that starts with '0' followed by further digits   *)
(* is accepted: parse_number and parse return the Number its whole digit   *)
(* run denotes, leading zeros ignored, with the cursor just past the run   *)
(* ("01234 abc" gives Number(1234), as test_parse_number asserts).         *)
(***************************************************************************)
C6_LeadingZeroAccepted ==
    LeadingZeroInput =>
        LET run == DigitRun(src, 0) IN
        ret = Some(Number(RunValue(run)), Len(run))

C6_Witness ==
    /\ op.name = "parse_number"
    /\ pos0 = 0
    /\ src = <<"0", "1", "2", "3", "4", " ", "a", "b", "c">>
    /\ ret = Some(Number(1234), 5)

(***************************************************************************)
(* C7. Literals match whole words only: a lookahead that spells true,      *)
(* false or null and goes on with an identifier character does not yield   *)
(* Bool or Null with that character left unconsumed, and a proper prefix   *)
(* of a literal yields no value and leaves the cursor where it was.        *)
(***************************************************************************)
C7_WholeWords ==
    op.name \in {"parse", "parse_bool", "parse_null"} =>
        LET q == IF op.name = "parse" THEN Lookahead ELSE pos0 IN
        /\ \A w \in Words :
             (StartsWith(src, q, w) /\ IdentCont(peek(src, q + Len(w))))
                 => ~(ret.kind = "Some" /\ ret.val.type \in {"Bool", "Null"}
                        /\ pos = q + Len(w))
        /\ \A w \in Words :
             ProperPrefixAt(src, q, w) => ret.kind # "Some" /\ pos = q

(***************************************************************************)
(* C8. Rendering is a left inverse of parsing: parsing the text Display    *)
(* wrote for a value returns that value (an Obj compared as a map, so      *)
(* whatever the order of its keys in the text).                            *)
(***************************************************************************)
C8_RoundTrip ==
    (/\ op.name = "parse"
     /\ pos0 = 0
     /\ held # NoValue
     /\ src \in Display(held))
        => ret.kind = "Some" /\ ret.val = held

(***************************************************************************)
(* C9. The cursor stays within the input and never moves back: pos is at   *)
(* most the length of the input after every operation, and advance at the  *)
(* end of input returns None and leaves pos unchanged and otherwise        *)
(* returns the current character and adds one to pos.                      *)
(***************************************************************************)
C9_CursorBound ==
    /\ pos <= ByteLen(src)
    /\ op.name # "new" => pos0 <= pos
    /\ op.name = "advance" =>
         IF pos0 >= Len(src) THEN ret.kind = "None" /\ pos = pos0
         ELSE ret.kind = "Some" /\ ret.val = src[pos0 + 1] /\ pos = pos0 + 1

(***************************************************************************)
(* C10. One unit of position for all operations: consume_word compares     *)
(* its word with, and parse_number converts, the characters peek and       *)
(* advance see from pos on, also when a character of more than one byte    *)
(* lies before the cursor; so a well-formed text with such a character in  *)
(* a string still parses to the value of its literals and digit runs.      *)
(***************************************************************************)
C10_OneUnit ==
    /\ op.name = "consume_word" =>
         IF StartsWith(src, pos0, op.arg)
         THEN ret = Flag(TRUE, pos0 + Len(op.arg))
         ELSE ret = Flag(FALSE, pos0)
    /\ (op.name = "parse_number" /\ peek(src, pos0) \in Digits) =>
         LET run == DigitRun(src, pos0) IN
         ret = Some(Number(RunValue(run)), pos0 + Len(run))
    /\ (op.name = "parse" /\ pos0 = 0 /\ doc.k \in {"arr", "obj"} /\ WellFormed(doc)
          /\ "-" \notin Range(src))
         => ret = Some(DocValue(doc), Len(src))

====
